---- MODULE Spec2Model ----
(***************************************************************************)
(* A model of src/app.py: the GPX / GPL combiner.                          *)
(*                                                                         *)
(* Floats.  The code only compares floats with 90, 180 and 1000, compares  *)
(* pairs of floats for equality, and divides by 100 and 1000.  A float is  *)
(* modelled as a fixed-point integer counting thousandths of a degree.     *)
(* Three values stand for what struct.unpack can also deliver: NaN (every  *)
(* comparison with it is false), and PosHuge / NegHuge for +-inf and for   *)
(* every finite value whose magnitude exceeds 2,000,000 degrees (dividing  *)
(* such a value by 1000 still leaves it far outside [-180, 180], so all of *)
(* them take the same branches as +-inf).                                  *)
(*                                                                         *)
(* app.py:83 closes the return annotation of parse_gpx_or_gpl_xml with one *)
(* ']' too many; the functions are modelled by their bodies.               *)
(***************************************************************************)
EXTENDS Integers, Sequences, FiniteSets, TLC

VARIABLES
    pc,            \* position of the program
    arg,           \* argument of a helper called on its own
    ret,           \* value the helper returned
    file_bytes,    \* the uploaded buffer (app.py:243)
    doc,           \* what ET.fromstring makes of the buffer's text
    data,          \* parse_gpl_binary: file_bytes[header_size:]
    i,             \* parse_gpl_binary: loop index
    chunk,         \* parse_gpl_binary: data[i:i+stride]
    chosen,        \* parse_gpl_binary: the pair accepted for the chunk
    decoded,       \* parse_gpl_binary: accepted points
    total_chunks, used64, used32, scaled, swapped, skipped,
    coords,        \* what parse_any returned
    stats,         \* the stats dict parse_any returned
    reduced        \* reduce_coords(coords)

vars == <<pc, arg, ret, file_bytes, doc, data, i, chunk, chosen, decoded,
          total_chunks, used64, used32, scaled, swapped, skipped,
          coords, stats, reduced>>

pipeline_vars == <<file_bytes, doc, data, i, chunk, chosen, decoded,
                   total_chunks, used64, used32, scaled, swapped, skipped,
                   coords, stats, reduced>>

(***************************************************************************)
(* Bounds of the model.                                                    *)
(***************************************************************************)
Spread == 1         \* values drawn within this many thousandths of a threshold
MaxLen == 5         \* longest coordinate sequence handed to a helper
MaxWindows == 2     \* most 32-byte windows in a binary buffer
MaxLead == 4        \* most leading tokens of a buffer drawn for sniffing
MaxPts == 3         \* most point elements in an XML document

(***************************************************************************)
(* Floats.                                                                 *)
(***************************************************************************)
NaN == 2147483647
PosHuge == 2000000000
NegHuge == -2000000000

None == <<>>        \* Python's None, where a pair is expected

Deg(n) == n * 1000

Fabs(x) == IF x = NaN THEN NaN ELSE IF x < 0 THEN -x ELSE x

\* x <= y and x > y on floats: false as soon as one side is NaN
Fle(x, y) == x # NaN /\ y # NaN /\ x <= y
Fgt(x, y) == x # NaN /\ y # NaN /\ x > y

\* x / k for k in {100.0, 1000.0}.  The quotient is rounded away from zero to
\* the next thousandth, so that |x / k| <= t holds of the model's quotient
\* exactly when it holds of the real one, for every whole number t of
\* thousandths: the range checks are the only readers of a quotient.
Fdiv(x, k) ==
    IF x \in {NaN, PosHuge, NegHuge} THEN x
    ELSE IF x < 0 THEN -((k - 1 - x) \div k) ELSE (x + k - 1) \div k

(***************************************************************************)
(* Helpers (app.py:26-77).                                                 *)
(***************************************************************************)
is_valid_lat_lon_origin_excluded(lat, lon) ==
    /\ Fle(Deg(-90), lat) /\ Fle(lat, Deg(90))
    /\ Fle(Deg(-180), lon) /\ Fle(lon, Deg(180))
    /\ ~(lat = 0 /\ lon = 0)

is_valid_lat_lon(lat, lon) ==
    /\ Fle(Deg(-90), lat) /\ Fle(lat, Deg(90))
    /\ Fle(Deg(-180), lon) /\ Fle(lon, Deg(180))

\* for a, b in candidates: if is_valid_lat_lon(a, b): return a, b
RECURSIVE first_valid(_)
first_valid(candidates) ==
    IF candidates = <<>> THEN None
    ELSE IF is_valid_lat_lon(Head(candidates)[1], Head(candidates)[2])
         THEN Head(candidates)
         ELSE first_valid(Tail(candidates))

\* the candidate list normalize_pair builds, in the order it appends
candidates_ungated(lat, lon) ==
    <<  <<lat, lon>>, <<lon, lat>>,
        <<Fdiv(lat, 100), Fdiv(lon, 100)>>, <<Fdiv(lon, 100), Fdiv(lat, 100)>>,
        <<Fdiv(lat, 1000), Fdiv(lon, 1000)>>, <<Fdiv(lon, 1000), Fdiv(lat, 1000)>> >>

candidates_of(lat, lon) ==
    <<  <<lat, lon>>, <<lon, lat>>  >>
    \o (IF Fgt(Fabs(lat), Deg(180)) \/ Fgt(Fabs(lon), Deg(180))
        THEN << <<Fdiv(lat, 100), Fdiv(lon, 100)>>,
                <<Fdiv(lon, 100), Fdiv(lat, 100)>> >>
        ELSE <<>>)
    \o (IF Fgt(Fabs(lat), Deg(1000)) \/ Fgt(Fabs(lon), Deg(1000))
        THEN << <<Fdiv(lat, 1000), Fdiv(lon, 1000)>>,
                <<Fdiv(lon, 1000), Fdiv(lat, 1000)>> >>
        ELSE <<>>)

normalize_pair(lat, lon) == first_valid(candidates_of(lat, lon))

\* coords[start:stop:2] with 0-based start and stop, 0 <= start
RECURSIVE slice_step2(_, _, _)
slice_step2(s, start, stop) ==
    IF start >= stop \/ start >= Len(s) THEN <<>>
    ELSE <<s[start + 1]>> \o slice_step2(s, start + 2, stop)

reduce_coords_from_two(s) ==
    IF Len(s) <= 2 THEN s
    ELSE <<s[1]>> \o slice_step2(s, 2, Len(s) - 1) \o <<s[Len(s)]>>

reduce_coords(s) ==
    IF Len(s) <= 2 THEN s
    ELSE <<s[1]>> \o slice_step2(s, 1, Len(s) - 1) \o <<s[Len(s)]>>

\* the loop of dedupe_consecutive: out grows by each element that differs
\* from out[-1]
RECURSIVE dedupe_loop(_, _)
dedupe_loop(out, rest) ==
    IF rest = <<>> THEN out
    ELSE IF Head(rest) # out[Len(out)]
         THEN dedupe_loop(Append(out, Head(rest)), Tail(rest))
         ELSE dedupe_loop(out, Tail(rest))

RECURSIVE dedupe_against_first(_, _)
dedupe_against_first(out, rest) ==
    IF rest = <<>> THEN out
    ELSE IF Head(rest) # out[1]
         THEN dedupe_against_first(Append(out, Head(rest)), Tail(rest))
         ELSE dedupe_against_first(out, Tail(rest))

dedupe_consecutive_vs_first(s) ==
    IF s = <<>> THEN s ELSE dedupe_against_first(<<s[1]>>, Tail(s))

dedupe_consecutive(s) ==
    IF s = <<>> THEN s ELSE dedupe_loop(<<s[1]>>, Tail(s))

(***************************************************************************)
(* Buffers.                                                                *)
(*                                                                         *)
(* A buffer is its leading tokens (lead), the number of further bytes      *)
(* before offset 256 (rest; the first of them, if any, is an ordinary      *)
(* character: neither whitespace nor '<'), and what follows offset 256:    *)
(* whole 8-byte words and up to 7 trailing bytes (tail).  Windows start at *)
(* multiples of 32 and struct.unpack reads at offsets 0, 8 and 16 of a     *)
(* window, so only whole words of the data are ever unpacked.              *)
(*                                                                         *)
(* Tokens: BOM is EF BB BF, WS a whitespace byte, LT the byte '<', BAD a   *)
(* byte that is not valid UTF-8 (FF), CH an ordinary character.            *)
(***************************************************************************)
header_size == 256

stride_16 == 8 + 8

stride == 32

Tokens == {"BOM", "WS", "LT", "BAD", "CH"}

ByteLen(lead) ==
    Len(lead) + 2 * Cardinality({k \in 1..Len(lead) : lead[k] = "BOM"})

FileLen(f) == ByteLen(f.lead) + f.rest + 8 * Len(f.words) + f.tail

(***************************************************************************)
(* Words: 8-byte patterns with what struct.unpack reads from them, "<d" as *)
(* f64 and "<ff" as f32 (IEEE-754, little-endian, in thousandths).         *)
(*   ZERO      00 00 00 00 00 00 00 00                                     *)
(*   NANW      ff ff ff ff ff ff ff ff                                     *)
(*   D_37_5    pack("<d", 37.5)      "<ff": (0.0, 3.04296875)              *)
(*   D_m122_4  pack("<d", -122.4)    "<ff": (-1.6e-23, -3.4781248)         *)
(*   D_3750    pack("<d", 3750.0)    "<ff": (0.0, 5.41552734375)           *)
(*   D_m12240  pack("<d", -12240.0)  "<ff": (0.0, -6.2470703125)           *)
(*   F_45_m120 pack("<ff", 45, -120)      "<d": -2.8e14                    *)
(*   F_m120_45 pack("<ff", -120, 45)      "<d": 8.6e10                     *)
(*   F_4500_m12000 pack("<ff", 4500, -12000)  "<d": -2.2e30                *)
(***************************************************************************)
WordTable ==
    [ ZERO          |-> [f64 |-> 0,         f32 |-> <<0, 0>>],
      NANW          |-> [f64 |-> NaN,       f32 |-> <<NaN, NaN>>],
      D_37_5        |-> [f64 |-> 37500,     f32 |-> <<0, 3042>>],
      D_m122_4      |-> [f64 |-> -122400,   f32 |-> <<0, -3478>>],
      D_3750        |-> [f64 |-> 3750000,   f32 |-> <<0, 5415>>],
      D_m12240      |-> [f64 |-> -12240000, f32 |-> <<0, -6247>>],
      F_45_m120     |-> [f64 |-> NegHuge,   f32 |-> <<45000, -120000>>],
      F_m120_45     |-> [f64 |-> PosHuge,   f32 |-> <<-120000, 45000>>],
      F_4500_m12000 |-> [f64 |-> NegHuge,   f32 |-> <<4500000, -12000000>>] ]

\* struct.unpack("<dd", chunk[off:off+16]) and struct.unpack("<ff", chunk[:8])
unpack_dd(c, off) ==
    << WordTable[c.words[off \div 8 + 1]].f64,
       WordTable[c.words[off \div 8 + 2]].f64 >>

unpack_ff(c) == WordTable[c.words[1]].f32

\* len(b) and b[lo:hi] for a byte string of whole words and a tail; lo and hi
\* are multiples of 8 (a slice that runs past the last whole word takes the
\* tail, which is shorter than 8 bytes)
BLen(b) == 8 * Len(b.words) + b.tail

Slice(b, lo, hi) ==
    IF lo >= BLen(b) THEN [words |-> <<>>, tail |-> 0]
    ELSE IF hi <= 8 * Len(b.words)
         THEN [words |-> SubSeq(b.words, lo \div 8 + 1, hi \div 8), tail |-> 0]
         ELSE [words |-> SubSeq(b.words, lo \div 8 + 1, Len(b.words)),
               tail |-> b.tail]

\* file_bytes[header_size:]
after_header(f) ==
    IF ByteLen(f.lead) + f.rest >= header_size
    THEN [words |-> f.words, tail |-> f.tail]
    ELSE [words |-> <<>>, tail |-> 0]

(***************************************************************************)
(* The records the model draws its binary buffers from.                    *)
(***************************************************************************)
ZeroRecord == <<"ZERO", "ZERO", "ZERO", "ZERO">>

Catalog ==
    { ZeroRecord,
      <<"D_37_5", "D_m122_4", "ZERO", "ZERO">>,
      <<"D_m122_4", "D_37_5", "NANW", "NANW">>,
      <<"D_m12240", "D_3750", "NANW", "NANW">>,
      <<"NANW", "D_37_5", "D_m122_4", "NANW">>,
      <<"NANW", "NANW", "D_3750", "D_m12240">>,
      <<"F_45_m120", "NANW", "NANW", "NANW">>,
      <<"F_m120_45", "NANW", "NANW", "NANW">>,
      <<"F_4500_m12000", "NANW", "NANW", "NANW">>,
      <<"NANW", "NANW", "NANW", "NANW">> }

TailBytes == {0, 1, 7}

RECURSIVE Flatten(_)
Flatten(ws) == IF ws = <<>> THEN <<>> ELSE Head(ws) \o Flatten(Tail(ws))

\* what follows the header: up to n records, the last one cut short
DataOf(n) ==
    { [words |-> SubSeq(Flatten(ws), 1, 4 * Len(ws) - cut), tail |-> t] :
        ws \in UNION { [1..k -> Catalog] : k \in 0..n },
        cut \in 0..4, t \in TailBytes }

NoDoc == [ok |-> FALSE, pts |-> <<>>]

XmlPts == { <<37500, -122400>>, <<45000, -120000>>, <<95000, 10000>> }

Docs ==
    {NoDoc} \cup
    { [ok |-> TRUE, pts |-> s] : s \in UNION { [1..k -> XmlPts] : k \in 0..MaxPts } }

(***************************************************************************)
(* Sniffing (app.py:86-87, 216-220).                                       *)
(***************************************************************************)
TokenChar(t) ==
    CASE t = "BOM" -> "FEFF"
      [] t = "WS"  -> " "
      [] t = "LT"  -> "<"
      [] OTHER     -> "A"

\* bytes.decode("utf-8-sig", errors="ignore"): the codec drops a BOM that
\* starts the input, then decodes UTF-8 and drops what is not decodable; a
\* later EF BB BF decodes to the character U+FEFF
decode_lead_any_bom(lead) ==
    LET kept == SelectSeq(lead, LAMBDA t : t \notin {"BAD", "BOM"})
    IN  [k \in 1..Len(kept) |-> TokenChar(kept[k])]

decode_lead(lead) ==
    LET body == IF lead # <<>> /\ lead[1] = "BOM" THEN Tail(lead) ELSE lead
        kept == SelectSeq(body, LAMBDA t : t # "BAD")
    IN  [k \in 1..Len(kept) |-> TokenChar(kept[k])]

decode_utf8_sig(f) ==
    decode_lead(f.lead) \o (IF f.rest > 0 THEN <<"A">> ELSE <<>>)

\* str.lstrip(): U+FEFF is not whitespace
RECURSIVE lstrip(_)
lstrip(text) ==
    IF text # <<>> /\ Head(text) = " " THEN lstrip(Tail(text)) ELSE text

startswith_lt(text) == text # <<>> /\ Head(text) = "<"

is_xml_like(f) == startswith_lt(lstrip(decode_utf8_sig(f)))

\* parse_gpx_or_gpl_xml: [] when the text does not start with '<' or does not
\* parse; else the points of the document that pass is_valid_lat_lon
parse_gpx_or_gpl_xml(f, d) ==
    IF ~is_xml_like(f) THEN <<>>
    ELSE IF ~d.ok THEN <<>>
    ELSE SelectSeq(d.pts, LAMBDA p : is_valid_lat_lon(p[1], p[2]))

(***************************************************************************)
(* One iteration of parse_gpl_binary's loop on a chunk of 8 bytes or more  *)
(* (app.py:159-191): what it chooses and what it adds to each counter.     *)
(***************************************************************************)
NoChoice == [chosen |-> None, u64 |-> 0, u32 |-> 0, sw |-> 0, sc |-> 0]

\* app.py:171-174 and 186-189
track(a, b, norm, wide) ==
    [ chosen |-> norm,
      u64 |-> IF wide THEN 1 ELSE 0,
      u32 |-> IF wide THEN 0 ELSE 1,
      sw |-> IF <<a, b>> # norm /\ <<b, a>> = norm THEN 1 ELSE 0,
      sc |-> IF Fgt(Fabs(a), Deg(180)) \/ Fgt(Fabs(b), Deg(180)) THEN 1 ELSE 0 ]

\* for off in offsets: ... break
RECURSIVE try_float64(_, _)
try_float64(c, offsets) ==
    IF offsets = <<>> THEN NoChoice
    ELSE LET off == Head(offsets) IN
         IF off + 16 <= BLen(c)
         THEN LET ab == unpack_dd(c, off)
                  norm == normalize_pair(ab[1], ab[2])
              IN  IF norm # None THEN track(ab[1], ab[2], norm, TRUE)
                  ELSE try_float64(c, Tail(offsets))
         ELSE try_float64(c, Tail(offsets))

try_float32(c) ==
    IF BLen(c) >= 8
    THEN LET ab == unpack_ff(c)
             norm == normalize_pair(ab[1], ab[2])
         IN  IF norm # None THEN track(ab[1], ab[2], norm, FALSE) ELSE NoChoice
    ELSE NoChoice

float64_offsets == <<0, 8, 16>>

decode_chunk_narrow_first(c) ==
    LET narrow == try_float32(c)
    IN  IF narrow.chosen # None THEN narrow ELSE try_float64(c, float64_offsets)

decode_chunk(c) ==
    LET wide == try_float64(c, float64_offsets)
    IN  IF wide.chosen # None THEN wide ELSE try_float32(c)

(***************************************************************************)
(* The program: one uploaded file through parse_any and reduce_coords      *)
(* (app.py:242-246).                                                       *)
(***************************************************************************)
NoBytes == [words |-> <<>>, tail |-> 0]
NoStats == [type |-> "none"]

LocalsAtStart ==
    /\ data = NoBytes /\ i = 0 /\ chunk = NoBytes /\ chosen = None
    /\ decoded = <<>> /\ total_chunks = 0 /\ used64 = 0 /\ used32 = 0
    /\ scaled = 0 /\ swapped = 0 /\ skipped = 0
    /\ coords = <<>> /\ stats = NoStats /\ reduced = <<>>

\* parse_any (app.py:210-232) up to the first iteration of parse_gpl_binary's
\* loop: the XML path returns here, the binary path sets up its locals
\* (app.py:141-150)
ParseAny ==
    /\ pc = "parse_any"
    /\ IF is_xml_like(file_bytes)
       THEN /\ coords' = parse_gpx_or_gpl_xml(file_bytes, doc)
            /\ stats' = [type |-> "xml", decoded |-> Len(coords'),
                         skipped |-> 0, note |-> "XML parsed"]
            /\ pc' = "reduce_coords"
            /\ UNCHANGED <<data, i, decoded, total_chunks, used64, used32,
                           scaled, swapped, skipped>>
       ELSE /\ data' = after_header(file_bytes)
            /\ i' = 0
            /\ decoded' = <<>>
            /\ total_chunks' = 0 /\ used64' = 0 /\ used32' = 0
            /\ scaled' = 0 /\ swapped' = 0 /\ skipped' = 0
            /\ pc' = "scan"
            /\ UNCHANGED <<coords, stats>>
    /\ UNCHANGED <<arg, ret, file_bytes, doc, chunk, chosen, reduced>>

\* one iteration of `for i in range(0, len(data), stride)` (app.py:152-196)
ScanWindow ==
    /\ pc = "scan"
    /\ i < BLen(data)
    /\ LET c == Slice(data, i, i + stride) IN
       /\ chunk' = c
       /\ total_chunks' = total_chunks + 1
       /\ i' = i + stride
       /\ IF BLen(c) < 8
          THEN /\ skipped' = skipped + 1
               /\ UNCHANGED <<chosen, decoded, used64, used32, scaled, swapped>>
          ELSE LET r == decode_chunk(c) IN
               /\ chosen' = r.chosen
               /\ used64' = used64 + r.u64
               /\ used32' = used32 + r.u32
               /\ swapped' = swapped + r.sw
               /\ scaled' = scaled + r.sc
               /\ decoded' = IF r.chosen # None THEN Append(decoded, r.chosen)
                             ELSE decoded
               /\ skipped' = IF r.chosen # None THEN skipped ELSE skipped + 1
    /\ UNCHANGED <<pc, arg, ret, file_bytes, doc, data, coords, stats, reduced>>

\* after the loop (app.py:198-208) and back in parse_any (app.py:231-232)
ScanDone ==
    /\ pc = "scan"
    /\ i >= BLen(data)
    /\ decoded' = dedupe_consecutive(decoded)
    /\ stats' = [type |-> "binary", chunks |-> total_chunks,
                 decoded |-> Len(decoded'), used64 |-> used64,
                 used32 |-> used32, scaled |-> scaled, swapped |-> swapped,
                 skipped |-> skipped]
    /\ coords' = decoded'
    /\ pc' = "reduce_coords"
    /\ UNCHANGED <<arg, ret, file_bytes, doc, data, i, chunk, chosen,
                   total_chunks, used64, used32, scaled, swapped, skipped,
                   reduced>>

\* reduced = reduce_coords(coords) (app.py:245)
ReduceCoords ==
    /\ pc = "reduce_coords"
    /\ reduced' = reduce_coords(coords)
    /\ pc' = "done"
    /\ UNCHANGED <<arg, ret, file_bytes, doc, data, i, chunk, chosen, decoded,
                   total_chunks, used64, used32, scaled, swapped, skipped,
                   coords, stats>>

Next == ParseAny \/ ScanWindow \/ ScanDone \/ ReduceCoords

\* buffers that end before offset 256
ShortFiles ==
    { [lead |-> l, rest |-> r, words |-> <<>>, tail |-> 0] :
        l \in { <<>>, <<"WS">> }, r \in {0, 1, 254} }

BinaryFiles ==
    ShortFiles \cup
    { [lead |-> <<>>, rest |-> header_size, words |-> d.words, tail |-> d.tail] :
        d \in DataOf(MaxWindows) }

XmlFiles ==
    { [lead |-> l, rest |-> 0, words |-> <<>>, tail |-> 0] :
        l \in { <<"LT">>, <<"BOM", "WS", "LT">> } }

Init ==
    /\ pc = "parse_any"
    /\ arg = None /\ ret = None
    /\ \E fd \in (BinaryFiles \X {NoDoc}) \cup (XmlFiles \X Docs) :
          file_bytes = fd[1] /\ doc = fd[2]
    /\ LocalsAtStart

Spec == Init /\ [][Next]_vars

(***************************************************************************)
(* The same program on buffers drawn for their leading bytes.              *)
(***************************************************************************)
Leads == UNION { [1..k -> Tokens] : k \in 0..MaxLead }

RouteData ==
    { [words |-> w, tail |-> 0] :
        w \in { <<>>, ZeroRecord, <<"NANW", "NANW", "NANW", "NANW">> } }

RouteDocs ==
    { NoDoc,
      [ok |-> TRUE,
       pts |-> << <<37500, -122400>>, <<95000, 10000>>, <<45000, -120000>> >>] }

RouteFiles ==
    { [lead |-> l, rest |-> 0, words |-> <<>>, tail |-> 0] : l \in Leads }
    \cup
    { [lead |-> l, rest |-> header_size - ByteLen(l),
       words |-> d.words, tail |-> d.tail] : l \in Leads, d \in RouteData }

InitRoute ==
    /\ pc = "parse_any"
    /\ arg = None /\ ret = None
    /\ file_bytes \in RouteFiles
    /\ doc \in RouteDocs
    /\ LocalsAtStart

SpecRoute == InitRoute /\ [][Next]_vars

(***************************************************************************)
(* The helpers called on their own, on arguments drawn from bounded sets.  *)
(***************************************************************************)
Idle ==
    /\ file_bytes = [lead |-> <<>>, rest |-> 0, words |-> <<>>, tail |-> 0]
    /\ doc = NoDoc
    /\ LocalsAtStart

\* floats at and around every number the range checks and the gates compare
\* with, before and after the divisions by 100 and 1000
Thresholds ==
    { 0, Deg(45), Deg(90), Deg(180), Deg(1000), Deg(9000), Deg(18000),
      Deg(90000), Deg(180000) }

NormValues ==
    { NaN, PosHuge, NegHuge } \cup
    { sgn * (t + d) : sgn \in {-1, 1}, t \in Thresholds, d \in (0 - Spread)..Spread }

CallNormalizePair ==
    /\ pc = "normalize_pair"
    /\ ret' = normalize_pair(arg[1], arg[2])
    /\ pc' = "normalize_pair_returned"
    /\ UNCHANGED <<arg, pipeline_vars>>

InitNormalize ==
    /\ pc = "normalize_pair"
    /\ arg \in NormValues \X NormValues
    /\ ret = None
    /\ Idle

NextNormalize == CallNormalizePair

SpecNormalize == InitNormalize /\ [][NextNormalize]_vars

SeqPoints == { <<37500, -122400>>, <<45000, -120000>>, <<0, 0>> }

CoordSeqs == UNION { [1..k -> SeqPoints] : k \in 0..MaxLen }

CallReduceCoords ==
    /\ pc = "reduce_coords_call"
    /\ ret' = reduce_coords(arg)
    /\ pc' = "reduce_coords_returned"
    /\ UNCHANGED <<arg, pipeline_vars>>

CallDedupeConsecutive ==
    /\ pc = "dedupe_consecutive_call"
    /\ ret' = dedupe_consecutive(arg)
    /\ pc' = "dedupe_consecutive_returned"
    /\ UNCHANGED <<arg, pipeline_vars>>

InitSeq ==
    /\ pc \in {"reduce_coords_call", "dedupe_consecutive_call"}
    /\ arg \in CoordSeqs
    /\ ret = None
    /\ Idle

NextSeq == CallReduceCoords \/ CallDedupeConsecutive

SpecSeq == InitSeq /\ [][NextSeq]_vars

(***************************************************************************)
(* Properties.                                                             *)
(***************************************************************************)
\* the global range check, as the specification words it
InRange(p) ==
    /\ p[1] # NaN /\ p[2] # NaN
    /\ -90000 <= p[1] /\ p[1] <= 90000
    /\ -180000 <= p[2] /\ p[2] <= 180000

Gate(a, b, t) == Fgt(Fabs(a), t) \/ Fgt(Fabs(b), t)

\* which of the six candidates (1: as given, 2: swapped, 3 and 4: both
\* divided by 100, 5 and 6: both divided by 1000) is the first to pass, the
\* divided ones standing only behind their gates; 0 when none passes
FirstCandidate(a, b) ==
    IF InRange(<<a, b>>) THEN 1
    ELSE IF InRange(<<b, a>>) THEN 2
    ELSE IF Gate(a, b, 180000) /\ InRange(<<Fdiv(a, 100), Fdiv(b, 100)>>) THEN 3
    ELSE IF Gate(a, b, 180000) /\ InRange(<<Fdiv(b, 100), Fdiv(a, 100)>>) THEN 4
    ELSE IF Gate(a, b, 1000000) /\ InRange(<<Fdiv(a, 1000), Fdiv(b, 1000)>>) THEN 5
    ELSE IF Gate(a, b, 1000000) /\ InRange(<<Fdiv(b, 1000), Fdiv(a, 1000)>>) THEN 6
    ELSE 0

CandidateAt(a, b, k) ==
    CASE k = 1 -> <<a, b>>
      [] k = 2 -> <<b, a>>
      [] k = 3 -> <<Fdiv(a, 100), Fdiv(b, 100)>>
      [] k = 4 -> <<Fdiv(b, 100), Fdiv(a, 100)>>
      [] k = 5 -> <<Fdiv(a, 1000), Fdiv(b, 1000)>>
      [] k = 6 -> <<Fdiv(b, 1000), Fdiv(a, 1000)>>
      [] OTHER -> None

\* C1: normalize_pair(a, b) returns the first candidate that passes the global
\* range check, in the order (a, b); (b, a); then, only if |a| > 180 or
\* |b| > 180, (a/100, b/100) and (b/100, a/100); then, only if |a| > 1000 or
\* |b| > 1000, (a/1000, b/1000) and (b/1000, a/1000); None when none passes;
\* and (a, b) itself whenever (a, b) already passes.
C1_NormalizeOrder ==
    pc = "normalize_pair_returned" =>
        /\ ret = CandidateAt(arg[1], arg[2], FirstCandidate(arg[1], arg[2]))
        /\ InRange(arg) => ret = arg

\* a call that falls through to the last candidate: (180000, 90000) passes
\* only as (90000/1000, 180000/1000)
C1_Witness ==
    /\ pc = "normalize_pair_returned"
    /\ arg = <<180000000, 90000000>>
    /\ ret = <<90000, 180000>>

\* the elements of s at the indices K, in order
Restrict(s, K) ==
    [ j \in 1..Cardinality(K) |->
        s[CHOOSE k \in K : Cardinality({m \in K : m <= k}) = j] ]

\* C7: reduce_coords(s) is s when len(s) <= 2, and otherwise s[0], then the
\* elements at the original indices 1, 3, 5, ... strictly below len(s)-1,
\* then s[len(s)-1], in that order; so the first and last elements of a
\* non-empty s are kept and the length is ceil(len(s)/2) + 1 for len(s) > 2.
C7_Reduce ==
    pc = "reduce_coords_returned" =>
        LET s == arg
            n == Len(arg)
            \* 1-based positions of the 0-based indices the claim names
            kept == {1, n} \cup {j + 1 : j \in {m \in 1..(n - 2) : m % 2 = 1}}
        IN  /\ n <= 2 => ret = s
            /\ n > 2 => /\ ret = Restrict(s, kept)
                        /\ Len(ret) = (n + 1) \div 2 + 1
            /\ n > 0 => ret # <<>> /\ ret[1] = s[1] /\ ret[Len(ret)] = s[n]

\* an odd-length call: five points, the second and fourth of which differ
\* from their neighbours, reduce to four
C7_Witness ==
    /\ pc = "reduce_coords_returned"
    /\ arg = << <<0, 0>>, <<37500, -122400>>, <<0, 0>>, <<45000, -120000>>,
               <<0, 0>> >>
    /\ ret = << <<0, 0>>, <<37500, -122400>>, <<45000, -120000>>, <<0, 0>> >>

\* C8: dedupe_consecutive(s) is an order-preserving subsequence of s that
\* drops an element exactly when it equals the retained element just before
\* it: no two adjacent elements of the output are equal, the output is no
\* longer than s, the empty input gives the empty output, and equal points
\* separated by a different point are both kept.
C8_Dedupe ==
    pc = "dedupe_consecutive_returned" =>
        LET s == arg
            n == Len(arg)
        IN  /\ Len(ret) <= n
            /\ s = <<>> => ret = <<>>
            /\ \A k \in 1..(Len(ret) - 1) : ret[k] # ret[k + 1]
            /\ \E K \in SUBSET (1..n) :
                 /\ ret = Restrict(s, K)
                 /\ \A k \in 1..n :
                      LET before == {j \in K : j < k}
                      IN  k \notin K <=>
                            /\ before # {}
                            /\ s[k] = s[CHOOSE j \in before :
                                          \A m \in before : m <= j]
            /\ \A k \in 1..(n - 2) :
                 s[k] = s[k + 2] /\ s[k] # s[k + 1] =>
                    \E j \in 1..(Len(ret) - 2) :
                        <<ret[j], ret[j + 1], ret[j + 2]>>
                            = <<s[k], s[k + 1], s[k + 2]>>

\* a call that drops repeats on both sides of a different point and keeps
\* the equal points that the different point separates
C8_Witness ==
    /\ pc = "dedupe_consecutive_returned"
    /\ arg = << <<0, 0>>, <<0, 0>>, <<37500, -122400>>, <<0, 0>>, <<0, 0>> >>
    /\ ret = << <<0, 0>>, <<37500, -122400>>, <<0, 0>> >>

\* a step of the scanner's loop: one more window has been read into chunk
ScanStep == pc = "scan" /\ pc' = "scan" /\ total_chunks' = total_chunks + 1

Returned == pc \in {"reduce_coords", "done"}

\* the cascade as the specification words it: the raw pair of the first
\* interpretation of window c that normalizes (wide at 0, at 8, at 16, each
\* only if it fits; then narrow), None when there is none
AcceptedRaw(c) ==
    LET fits(off) == off + 16 <= BLen(c)
        ok(ab) == normalize_pair(ab[1], ab[2]) # None
    IN  IF fits(0) /\ ok(unpack_dd(c, 0)) THEN unpack_dd(c, 0)
        ELSE IF fits(8) /\ ok(unpack_dd(c, 8)) THEN unpack_dd(c, 8)
        ELSE IF fits(16) /\ ok(unpack_dd(c, 16)) THEN unpack_dd(c, 16)
        ELSE IF ok(unpack_ff(c)) THEN unpack_ff(c)
        ELSE None

AcceptedPoint(c) ==
    IF AcceptedRaw(c) = None THEN None
    ELSE normalize_pair(AcceptedRaw(c)[1], AcceptedRaw(c)[2])

\* C2: on a window of at least 8 bytes the scanner accepts at most one point,
\* that of the first interpretation to normalize: wide at offset 0, then 8,
\* then 16 (only offsets with offset + 16 <= len), narrow only if no wide
\* offset normalized; the point is appended to the result, so the result is
\* in window order.
C2_Cascade ==
    [][ScanStep /\ BLen(chunk') >= 8 =>
          /\ chosen' = AcceptedPoint(chunk')
          /\ decoded' = IF AcceptedPoint(chunk') = None THEN decoded
                        ELSE Append(decoded, AcceptedPoint(chunk'))]_vars

\* a second window that only the narrow interpretation decodes, after a
\* first one decoded wide
C2_Witness ==
    /\ pc = "scan"
    /\ total_chunks = 2
    /\ chunk = [words |-> <<"F_45_m120", "NANW", "NANW", "NANW">>, tail |-> 0]
    /\ chosen = <<45000, -120000>>
    /\ decoded = << <<37500, -122400>>, <<45000, -120000>> >>
    /\ used64 = 1 /\ used32 = 1

\* C3: when parse_gpl_binary returns, stats["decoded"] is the number of points
\* the cascade accepted: the length of the sequence before deduplication.
C3_DecodedCountsAccepted ==
    [][pc = "scan" /\ pc' = "reduce_coords" => stats'.decoded = Len(decoded)]_vars

\* C4: when parse_gpl_binary has returned, decoded + skipped >= chunks.
C4_EveryWindowAccounted ==
    Returned /\ stats.type = "binary" =>
        stats.decoded + stats.skipped >= stats.chunks

ZeroChunk == [words |-> ZeroRecord, tail |-> 0]

\* C5, as claimed: a 32-byte record of zero bytes yields no point and is
\* counted as skipped.
C5_ZeroRecordSkipped ==
    [][ScanStep /\ chunk' = ZeroChunk =>
          /\ chosen' = None
          /\ decoded' = decoded
          /\ skipped' = skipped + 1]_vars

\* C5, amended: a 32-byte record of zero bytes yields the point (0, 0) by the
\* wide interpretation at offset 0; it is appended, counted under used64 and
\* not counted as skipped, swapped or scaled.
C5_ZeroRecordIsOrigin ==
    [][ScanStep /\ chunk' = ZeroChunk =>
          /\ chosen' = <<0, 0>>
          /\ decoded' = Append(decoded, <<0, 0>>)
          /\ used64' = used64 + 1
          /\ <<used32', skipped', swapped', scaled'>>
                = <<used32, skipped, swapped, scaled>>]_vars

C5_Witness ==
    /\ pc = "scan"
    /\ total_chunks = 1
    /\ chunk = ZeroChunk
    /\ chosen = <<0, 0>>
    /\ decoded = << <<0, 0>> >>
    /\ used64 = 1 /\ skipped = 0

\* what parse_gpl_binary has returned, against the length of the buffer
C6_Returned ==
    Returned /\ stats.type = "binary" =>
        LET len == FileLen(file_bytes)
            rem == IF len > 256 THEN len - 256 ELSE 0
        IN  /\ 32 * stats.chunks >= rem
            /\ 32 * stats.chunks < rem + 32
            /\ stats.chunks = total_chunks
            /\ len <= 256 => coords = <<>> /\ stats.chunks = 0

\* C6: on a buffer of any length parse_gpl_binary comes to an end and returns:
\* the first 256 bytes are skipped and the rest is walked in windows of 32
\* bytes, so chunks = ceil(max(0, len - 256) / 32); a window shorter than 8
\* bytes is counted as skipped with no decode attempt; a buffer of at most
\* 256 bytes gives the empty sequence and chunks = 0.
C6_ScanCompletes ==
    [][/\ C6_Returned'
       \* every pass of the loop moves i one window closer to the end of
       \* the data, and the loop is left for the return
       /\ pc = "scan" => \/ pc' = "reduce_coords" /\ i >= BLen(data)
                         \/ ScanStep /\ i < BLen(data) /\ i' = i + 32
       /\ ScanStep /\ BLen(chunk') < 8 =>
            /\ skipped' = skipped + 1
            /\ <<chosen', decoded', used64', used32', swapped', scaled'>>
                  = <<chosen, decoded, used64, used32, swapped, scaled>>]_vars

\* a buffer of 256 + 32 + 7 bytes, returned from: two windows, the second too
\* short to decode
C6_Witness ==
    /\ pc = "done"
    /\ FileLen(file_bytes) = 295
    /\ stats.type = "binary"
    /\ stats.chunks = 2
    /\ stats.skipped >= 1
    /\ BLen(chunk) = 7

RoutedXml == Returned /\ stats.type = "xml"

\* the first '<' among the leading tokens, 0 when there is none
FirstLT(lead) ==
    IF \E k \in 1..Len(lead) : lead[k] = "LT"
    THEN CHOOSE k \in 1..Len(lead) :
            lead[k] = "LT" /\ \A j \in 1..(k - 1) : lead[j] # "LT"
    ELSE 0

\* C9, as claimed: the buffer goes to the XML path exactly when a '<' is the
\* first character left once undecodable bytes are dropped and leading
\* whitespace and a leading byte-order marker are stripped, in whatever
\* arrangement whitespace, marker and undecodable bytes precede the '<'.
C9_AnyArrangement ==
    pc # "parse_any" =>
        LET lead == file_bytes.lead
            k == FirstLT(lead)
        IN  RoutedXml <=>
              /\ k > 0
              /\ \A j \in 1..(k - 1) : lead[j] \in {"WS", "BAD", "BOM"}
              /\ Cardinality({j \in 1..(k - 1) : lead[j] = "BOM"}) <= 1

\* C9, amended: the byte-order marker is stripped only where it is the first
\* three bytes of the buffer; ahead of the '<' there may otherwise be only
\* whitespace and undecodable bytes.  Every other buffer, the empty one
\* included, goes to the binary scanner.
C9_Route ==
    pc # "parse_any" =>
        LET lead == file_bytes.lead
            k == FirstLT(lead)
        IN  /\ RoutedXml <=>
                /\ k > 0
                /\ \A j \in 1..(k - 1) :
                     lead[j] \in {"WS", "BAD"} \/ (j = 1 /\ lead[j] = "BOM")
            /\ ~RoutedXml => pc = "scan" \/ stats.type = "binary"
            /\ FileLen(file_bytes) = 0 => ~RoutedXml

\* a buffer that starts with the marker, then whitespace and an undecodable
\* byte, then '<', routed to the XML path
C9_Witness ==
    /\ RoutedXml
    /\ file_bytes.lead = <<"BOM", "WS", "BAD", "LT">>

\* the candidate (1..6, 0 for none) the scanner accepted for window c
AcceptedCandidate(c) ==
    IF AcceptedRaw(c) = None THEN 0
    ELSE FirstCandidate(AcceptedRaw(c)[1], AcceptedRaw(c)[2])

\* C10: swapped counts the accepted records whose accepted candidate was
\* (b, a), (b/100, a/100) or (b/1000, a/1000) for the raw pair (a, b) of the
\* interpretation that succeeded, and scaled those whose accepted candidate
\* was one of the /100 or /1000 candidates: each window adds to each counter
\* accordingly, and the statistics report the counters.
C10_SwappedAndScaled ==
    [][/\ ScanStep /\ BLen(chunk') >= 8 =>
            /\ swapped' = swapped +
                  (IF AcceptedCandidate(chunk') \in {2, 4, 6} THEN 1 ELSE 0)
            /\ scaled' = scaled +
                  (IF AcceptedCandidate(chunk') \in {3, 4, 5, 6} THEN 1 ELSE 0)
       /\ pc = "scan" /\ pc' = "reduce_coords" =>
            stats'.swapped = swapped /\ stats'.scaled = scaled]_vars

\* the half of C10 about scaled alone
C10_ScaledOnly ==
    [][ScanStep /\ BLen(chunk') >= 8 =>
            scaled' = scaled +
                  (IF AcceptedCandidate(chunk') \in {3, 4, 5, 6} THEN 1 ELSE 0)]_vars

====
